---- MODULE Spec2Model ----
(***************************************************************************)
(* ElecTram: hybrid-electric aircraft sizing.  Model of the powertrain     *)
(* family (src/meow/powertrain.py) and of the mission simulator            *)
(* (src/meow/mission.py).                                                  *)
(*                                                                         *)
(* Numbers.  The program computes in binary floating point; the model      *)
(* computes in fixed point, every quantity an integer count of a stated    *)
(* unit, every product and quotient rounded toward zero as soon as it is   *)
(* formed (as a float operation rounds as soon as it is formed).  Units:   *)
(*   power                      W          (the *_kW fields, times 1000)   *)
(*   Hp, efficiencies, CL, K1   1/1000                                     *)
(*   CD, CD0                    1/10000                                    *)
(*   specific power             0.1 kW/kg                                  *)
(*   BSFC                       g/kWh                                      *)
(*   fuel rate                  mg/s       (fuel_rate_kg_s, times 10^6)    *)
(*   mass, weight, force        0.1 lb     (the *_lb fields, times 10)     *)
(*   battery energy             Wh                                         *)
(*   time                       s                                          *)
(*   speed                      0.1 ft/s ;  rate of climb 0.01 ft/s        *)
(*   density                    10^-6 slug/ft^3 ; 10^-4 kg/m^3             *)
(*   altitude, range, area      ft, nm, ft^2                               *)
(***************************************************************************)
EXTENDS Integers, Sequences, FiniteSets, TLC

VARIABLES
    pt,         \* the powertrain object (self.powertrain): class, tech, masses, powers
    lastCall,   \* the last call made on the powertrain API: [op, P, Hp]
    ret,        \* what that call returned (None for size_components)
    exc,        \* the exception that call raised ("none": it returned normally)
    ac,         \* the aircraft fields the mission simulator reads
    segments,   \* the List[MissionSegment] built by create_mission
    profile,    \* the hybridization_profile create_mission was given
    pc,         \* position of the mission run: idle, created, loop, done
    idx,        \* simulate_mission: index of the segment the for loop is at
    TOGW_lb,    \* simulate_mission argument
    S_wing_ft2, \* simulate_mission argument
    W_current_lb,     \* simulate_mission local
    total_fuel_lb,    \* simulate_mission local
    total_battery_Wh, \* simulate_mission local
    total_time_sec,   \* simulate_mission local
    result,     \* the dict simulate_mission returned (None before)
    simLog,     \* history: <<name, weight handed in>> of every segment simulated
    sz,         \* size_aircraft: its arguments, loop position, estimate and outcome
    config,     \* meow/config.json: its dep_system block
    drv         \* the driver script that is running: its position and locals

ptVars == <<pt, lastCall, ret, exc>>
missionVars == <<ac, segments, profile, pc, idx, TOGW_lb, S_wing_ft2, W_current_lb,
                 total_fuel_lb, total_battery_Wh, total_time_sec, result, simLog>>
vars == <<pt, lastCall, ret, exc, ac, segments, profile, pc, idx, TOGW_lb,
          S_wing_ft2, W_current_lb, total_fuel_lb, total_battery_Wh,
          total_time_sec, result, simLog, sz, config, drv>>
drvVars == <<config, drv>>

None == "None"

(***************************************************************************)
(* Fixed-point arithmetic                                                  *)
(***************************************************************************)
Abs(x) == IF x < 0 THEN -x ELSE x

Sign(x) == IF x < 0 THEN -1 ELSE IF x = 0 THEN 0 ELSE 1

\* a / b rounded toward zero (b # 0)
TDiv(a, b) == Sign(a) * Sign(b) * (Abs(a) \div Abs(b))

\* x * n / d rounded toward zero (d # 0), formed without an intermediate
\* product larger than max(|result|, |n * d|)
MulDiv(x, n, d) ==
    Sign(x) * Sign(n) * Sign(d) *
        ((Abs(x) \div Abs(d)) * Abs(n) + ((Abs(x) % Abs(d)) * Abs(n)) \div Abs(d))

\* kg -> lb, the factor 2.20462 (0.1 kg in, 0.1 lb out)
KgToLb(x) == 2 * x + MulDiv(x, 20462, 100000)

(***************************************************************************)
(* Bounds of the model and the inputs drawn from them                      *)
(***************************************************************************)
MaxPowerStep == 2

\* required / shaft powers passed to the powertrain API: -250 kW, 0, 250 kW, ...
PowerInputs == { k * 250000 : k \in -1..MaxPowerStep }

\* hybridization ratios passed to the powertrain API: the two boundary
\* values, one interior value, and the nearest values outside [0, 1]
HpInputs == { -1, 0, 300, 1000, 1001 }

HpInRange(Hp) == 0 <= Hp /\ Hp <= 1000

(***************************************************************************)
(* TechnologySpec                                                          *)
(***************************************************************************)
TechnologySpec(em, gen) ==
    [ GT_specific_power_kW_kg  |-> 40,
      GT_efficiency            |-> 300,
      GT_BSFC_kg_kWh           |-> 300,
      EM_specific_power_kW_kg  |-> 50,
      EM_efficiency            |-> em,
      GEN_specific_power_kW_kg |-> 60,
      GEN_efficiency           |-> gen,
      battery_specific_energy_Wh_kg |-> 250,
      battery_specific_power_kW_kg  |-> 10,
      battery_SOC_margin       |-> 200,
      battery_DOD              |-> 800,
      prop_efficiency          |-> 800 ]

\* motor and generator efficiencies in (0, 1], the lossless value included
TechSpecs == { TechnologySpec(em, gen) : em \in {900, 1000}, gen \in {950, 1000} }

(***************************************************************************)
(* Powertrain family                                                       *)
(***************************************************************************)
Kinds == { "Conventional", "ParallelHybrid", "SerialHybrid", "FullyElectric" }

PowertrainName(kind) ==
    CASE kind = "Conventional"   -> "Conventional"
      [] kind = "ParallelHybrid" -> "Parallel Hybrid"
      [] kind = "SerialHybrid"   -> "Serial Hybrid"
      [] kind = "FullyElectric"  -> "Fully Electric"

\* PowertrainBase.__init__ as reached through the subclass constructors
PowertrainBase_init(kind, tech) ==
    [ kind |-> kind, name |-> PowertrainName(kind), tech |-> tech,
      m_GT_lb |-> 0, m_EM_lb |-> 0, m_GEN_lb |-> 0,
      m_battery_lb |-> 0, m_fuel_lb |-> 0,
      P_GT_kW |-> 0, P_EM_kW |-> 0, P_GEN_kW |-> 0 ]

\* (P / specific_power) * 2.20462
ComponentMass(P, specific_power) == KgToLb(TDiv(P, 10 * specific_power))

\* variant of Conventional_size_components that also sizes a motor for the shaft power
Conventional_size_components_motor(self, P_shaft_kW, Hp) ==
    [ self EXCEPT
        !.P_GT_kW = P_shaft_kW,
        !.m_GT_lb = ComponentMass(P_shaft_kW, self.tech.GT_specific_power_kW_kg),
        !.m_EM_lb = ComponentMass(P_shaft_kW, self.tech.EM_specific_power_kW_kg),
        !.m_GEN_lb = 0 ]

\* variant of Conventional_size_components that gives the turbine the share
\* (1 - Hp) of the shaft power, as the parallel hybrid does
Conventional_size_components_share(self, P_shaft_kW, Hp) ==
    LET P_GT == MulDiv(P_shaft_kW, 1000 - Hp, 1000)
    IN  [ self EXCEPT
            !.P_GT_kW = P_GT,
            !.m_GT_lb = ComponentMass(P_GT, self.tech.GT_specific_power_kW_kg),
            !.m_EM_lb = 0,
            !.m_GEN_lb = 0 ]

Conventional_size_components(self, P_shaft_kW, Hp) ==
    [ self EXCEPT
        !.P_GT_kW = P_shaft_kW,
        !.m_GT_lb = ComponentMass(P_shaft_kW, self.tech.GT_specific_power_kW_kg),
        !.m_EM_lb = 0,
        !.m_GEN_lb = 0 ]

\* variant of Conventional_get_power_split with an idle fuel flow: the turbine
\* never burns less than it does at 25 kW
Conventional_get_power_split_idle(self, P_required_kW, Hp) ==
    [ P_GT_kW |-> P_required_kW,
      P_EM_kW |-> 0,
      fuel_rate_kg_s |->
          MulDiv(IF P_required_kW < 25000 THEN 25000 ELSE P_required_kW,
                 self.tech.GT_BSFC_kg_kWh, 3600),
      battery_power_W |-> 0 ]

Conventional_get_power_split(self, P_required_kW, Hp) ==
    [ P_GT_kW |-> P_required_kW,
      P_EM_kW |-> 0,
      fuel_rate_kg_s |-> MulDiv(P_required_kW, self.tech.GT_BSFC_kg_kWh, 3600),
      battery_power_W |-> 0 ]

\* variant of Parallel_size_components that adds the new masses to the ones held
Parallel_size_components_accum(self, P_shaft_kW, Hp) ==
    LET P_EM == MulDiv(P_shaft_kW, Hp, 1000)
        P_GT == MulDiv(P_shaft_kW, 1000 - Hp, 1000)
    IN  [ self EXCEPT
            !.P_EM_kW = P_EM,
            !.P_GT_kW = P_GT,
            !.m_EM_lb = self.m_EM_lb + ComponentMass(P_EM, self.tech.EM_specific_power_kW_kg),
            !.m_GT_lb = self.m_GT_lb + ComponentMass(P_GT, self.tech.GT_specific_power_kW_kg),
            !.m_GEN_lb = 0 ]

Parallel_size_components(self, P_shaft_kW, Hp) ==
    LET P_EM == MulDiv(P_shaft_kW, Hp, 1000)
        P_GT == MulDiv(P_shaft_kW, 1000 - Hp, 1000)
    IN  [ self EXCEPT
            !.P_EM_kW = P_EM,
            !.P_GT_kW = P_GT,
            !.m_EM_lb = ComponentMass(P_EM, self.tech.EM_specific_power_kW_kg),
            !.m_GT_lb = ComponentMass(P_GT, self.tech.GT_specific_power_kW_kg),
            !.m_GEN_lb = 0 ]

Parallel_get_power_split(self, P_required_kW, Hp) ==
    LET P_GT == MulDiv(P_required_kW, 1000 - Hp, 1000)
        P_EM == MulDiv(P_required_kW, Hp, 1000)
    IN  [ P_GT_kW |-> P_GT,
          P_EM_kW |-> P_EM,
          fuel_rate_kg_s |-> MulDiv(P_GT, self.tech.GT_BSFC_kg_kWh, 3600),
          battery_power_W |-> MulDiv(P_EM, 1000, self.tech.EM_efficiency) ]

\* variant of Serial_size_components that sizes the generator for the whole
\* electrical load, whatever the battery share
Serial_size_components_full(self, P_shaft_kW, Hp) ==
    LET P_electric == MulDiv(P_shaft_kW, 1000, self.tech.EM_efficiency)
        P_GEN == P_electric
        P_GT == MulDiv(P_GEN, 1000, self.tech.GEN_efficiency)
    IN  [ self EXCEPT
            !.P_EM_kW = P_shaft_kW,
            !.P_GEN_kW = P_GEN,
            !.P_GT_kW = P_GT,
            !.m_EM_lb = ComponentMass(P_shaft_kW, self.tech.EM_specific_power_kW_kg),
            !.m_GEN_lb = ComponentMass(P_GEN, self.tech.GEN_specific_power_kW_kg),
            !.m_GT_lb = ComponentMass(P_GT, self.tech.GT_specific_power_kW_kg) ]

Serial_size_components(self, P_shaft_kW, Hp) ==
    LET P_electric == MulDiv(P_shaft_kW, 1000, self.tech.EM_efficiency)
        P_GEN == MulDiv(P_electric, 1000 - Hp, 1000)
        P_GT == MulDiv(P_GEN, 1000, self.tech.GEN_efficiency)
    IN  [ self EXCEPT
            !.P_EM_kW = P_shaft_kW,
            !.P_GEN_kW = P_GEN,
            !.P_GT_kW = P_GT,
            !.m_EM_lb = ComponentMass(P_shaft_kW, self.tech.EM_specific_power_kW_kg),
            !.m_GEN_lb = ComponentMass(P_GEN, self.tech.GEN_specific_power_kW_kg),
            !.m_GT_lb = ComponentMass(P_GT, self.tech.GT_specific_power_kW_kg) ]

\* variant of Serial_get_power_split that charges the generator loss to the
\* battery share too
Serial_get_power_split_genloss(self, P_required_kW, Hp) ==
    LET P_EM == P_required_kW
        P_electric == MulDiv(P_EM, 1000, self.tech.EM_efficiency)
        P_battery == MulDiv(MulDiv(P_electric, Hp, 1000), 1000, self.tech.GEN_efficiency)
        P_generator == MulDiv(P_electric, 1000 - Hp, 1000)
        P_GT == MulDiv(P_generator, 1000, self.tech.GEN_efficiency)
    IN  [ P_GT_kW |-> P_GT,
          P_EM_kW |-> P_EM,
          fuel_rate_kg_s |-> MulDiv(P_GT, self.tech.GT_BSFC_kg_kWh, 3600),
          battery_power_W |-> P_battery ]

\* variant of Serial_get_power_split with the battery and generator shares exchanged
Serial_get_power_split_swapped(self, P_required_kW, Hp) ==
    LET P_EM == P_required_kW
        P_electric == MulDiv(P_EM, 1000, self.tech.EM_efficiency)
        P_battery == MulDiv(P_electric, 1000 - Hp, 1000)
        P_generator == MulDiv(P_electric, Hp, 1000)
        P_GT == MulDiv(P_generator, 1000, self.tech.GEN_efficiency)
    IN  [ P_GT_kW |-> P_GT,
          P_EM_kW |-> P_EM,
          fuel_rate_kg_s |-> MulDiv(P_GT, self.tech.GT_BSFC_kg_kWh, 3600),
          battery_power_W |-> P_battery ]

Serial_get_power_split(self, P_required_kW, Hp) ==
    LET P_EM == P_required_kW
        P_electric == MulDiv(P_EM, 1000, self.tech.EM_efficiency)
        P_battery == MulDiv(P_electric, Hp, 1000)
        P_generator == MulDiv(P_electric, 1000 - Hp, 1000)
        P_GT == MulDiv(P_generator, 1000, self.tech.GEN_efficiency)
    IN  [ P_GT_kW |-> P_GT,
          P_EM_kW |-> P_EM,
          fuel_rate_kg_s |-> MulDiv(P_GT, self.tech.GT_BSFC_kg_kWh, 3600),
          battery_power_W |-> P_battery ]

Electric_size_components(self, P_shaft_kW, Hp) ==
    [ self EXCEPT
        !.P_EM_kW = P_shaft_kW,
        !.m_EM_lb = ComponentMass(P_shaft_kW, self.tech.EM_specific_power_kW_kg),
        !.m_GT_lb = 0,
        !.m_GEN_lb = 0 ]

Electric_get_power_split(self, P_required_kW, Hp) ==
    [ P_GT_kW |-> 0,
      P_EM_kW |-> P_required_kW,
      fuel_rate_kg_s |-> 0,
      battery_power_W |-> MulDiv(P_required_kW, 1000, self.tech.EM_efficiency) ]

\* method dispatch on the object's class
size_components(self, P_shaft_kW, Hp) ==
    CASE self.kind = "Conventional"   -> Conventional_size_components(self, P_shaft_kW, Hp)
      [] self.kind = "ParallelHybrid" -> Parallel_size_components(self, P_shaft_kW, Hp)
      [] self.kind = "SerialHybrid"   -> Serial_size_components(self, P_shaft_kW, Hp)
      [] self.kind = "FullyElectric"  -> Electric_size_components(self, P_shaft_kW, Hp)

get_power_split(self, P_required_kW, Hp) ==
    CASE self.kind = "Conventional"   -> Conventional_get_power_split(self, P_required_kW, Hp)
      [] self.kind = "ParallelHybrid" -> Parallel_get_power_split(self, P_required_kW, Hp)
      [] self.kind = "SerialHybrid"   -> Serial_get_power_split(self, P_required_kW, Hp)
      [] self.kind = "FullyElectric"  -> Electric_get_power_split(self, P_required_kW, Hp)

\* The outcome of a call: the object afterwards, the value returned and the
\* exception raised.  No variant holds a raise statement or a check of its
\* arguments, and the technology constants are non-zero, so every call returns.
Call_size_components(self, P_shaft_kW, Hp) ==
    [ self |-> size_components(self, P_shaft_kW, Hp), ret |-> None, exc |-> "none" ]

\* variant of Call_get_power_split that keeps the turbine and motor shares on the object
Call_get_power_split_storing(self, P_required_kW, Hp) ==
    LET split == get_power_split(self, P_required_kW, Hp)
    IN  [ self |-> [ self EXCEPT !.P_GT_kW = split.P_GT_kW, !.P_EM_kW = split.P_EM_kW ],
          ret |-> split, exc |-> "none" ]

Call_get_power_split(self, P_required_kW, Hp) ==
    [ self |-> self, ret |-> get_power_split(self, P_required_kW, Hp), exc |-> "none" ]

(***************************************************************************)
(* Mission simulator                                                       *)
(***************************************************************************)
MaxWeightStep == 2

\* take-off gross weights handed to simulate_mission: 6000 lb, 12000 lb, ...
TOGWInputs == { k * 60000 : k \in 1..MaxWeightStep }

\* wing areas handed to simulate_mission
SInputs == { 200, 400 }

\* the aircraft fields mission.py reads (self.tech and self.powertrain are pt)
Aircraft(range_nm) ==
    [ cruise_alt_ft |-> 10000, cruise_speed_kts |-> 250, range_nm |-> range_nm,
      CD0 |-> 300, K1 |-> 50, CLmax_clean |-> 2200 ]

\* a regional and a long-range requirement
Aircrafts == { Aircraft(r) : r \in {400, 4000} }

EmptyProfile == [ k \in {} |-> 0 ]

\* the profile of the hybrid design case: electric help where noise matters
Profiles_estol ==
    [ takeoff |-> 500, climb |-> 300, cruise |-> 0, descent |-> 0,
      loiter |-> 0, landing |-> 300 ]

\* hybridization profiles: every segment named, none named, the two
\* power-driven segments all-electric together with a key that names no
\* segment, and one ratio for all
Profiles ==
    { [ takeoff |-> 500, climb |-> 300, cruise |-> 0, descent |-> 0,
        loiter |-> 0, landing |-> 300 ],
      EmptyProfile,
      [ cruise |-> 1000, climb |-> 1000, taxi |-> 700 ],
      [ k \in {"takeoff", "climb", "cruise", "descent", "loiter", "landing"} |-> 300 ] }

\* variant of DictGet that answers a design ratio of 0.3 for a missing key
DictGet_design(d, key, default) == IF key \in DOMAIN d THEN d[key] ELSE 300

\* dict.get(key, default)
DictGet(d, key, default) == IF key \in DOMAIN d THEN d[key] ELSE default

\* the dataclass constructor: the four result fields default to 0.0
MissionSegment(name, altitude_start_ft, altitude_end_ft, Hp) ==
    [ name |-> name, altitude_start_ft |-> altitude_start_ft,
      altitude_end_ft |-> altitude_end_ft, Hp |-> Hp,
      time_sec |-> 0, fuel_lb |-> 0, battery_Wh |-> 0, distance_nm |-> 0 ]

create_mission(self, hybridization_profile) ==
    << MissionSegment("takeoff", 0, 35, DictGet(hybridization_profile, "takeoff", 0)),
       MissionSegment("climb", 35, self.cruise_alt_ft,
                      DictGet(hybridization_profile, "climb", 0)),
       MissionSegment("cruise", self.cruise_alt_ft, self.cruise_alt_ft,
                      DictGet(hybridization_profile, "cruise", 0)),
       MissionSegment("descent", self.cruise_alt_ft, 450,
                      DictGet(hybridization_profile, "descent", 0)),
       MissionSegment("loiter", 450, 450, DictGet(hybridization_profile, "loiter", 0)),
       MissionSegment("landing", 450, 0, DictGet(hybridization_profile, "landing", 0)) >>

\* Standard-atmosphere density at geometric height h_m (10^-4 kg/m^3): the
\* ISA table at 1000 m steps, interpolated linearly, held above 11 km
IsaTable == << 12250, 11117, 10066, 9093, 8194, 7364, 6601, 5900, 5258, 4671, 4135, 3648 >>

atmosisa_rho(h_m) ==
    LET k == h_m \div 1000
    IN  IF h_m <= 0 THEN IsaTable[1]
        ELSE IF k >= 11 THEN IsaTable[12]
        ELSE IsaTable[k + 1] - MulDiv(IsaTable[k + 1] - IsaTable[k + 2], h_m % 1000, 1000)

\* floor of the square root of n >= 0, by bisection
RECURSIVE SqrtBetween(_, _, _)
SqrtBetween(n, lo, hi) ==
    IF lo >= hi THEN lo
    ELSE LET mid == (lo + hi + 1) \div 2
         IN  IF mid * mid <= n THEN SqrtBetween(n, mid, hi)
             ELSE SqrtBetween(n, lo, mid - 1)

Sqrt(n) == SqrtBetween(n, 0, 46340)

\* 0.5 * rho * V**2 * S  (rho in 10^-6 slug/ft^3, V in 0.1 ft/s, result in 0.1 lb)
DynamicPressureArea(rho_slug_ft3, V_fps, S_ft2) ==
    MulDiv(TDiv(rho_slug_ft3 * TDiv(V_fps * V_fps, 100), 2000), S_ft2, 100)

\* CD0 + K1 * CL**2
DragPolar(self, CL) == self.CD0 + MulDiv(CL * CL, self.K1, 100000)

\* force * V / (550 * prop_efficiency) * 0.7457  (0.1 lb, 0.1 ft/s in; W out)
ShaftPower(force_lb, V_fps, prop_efficiency) ==
    MulDiv(MulDiv(force_lb * V_fps, 100, 550 * prop_efficiency), 7457, 100)

\* fuel_rate_kg_s * time_sec * 2.20462
FuelConsumed(fuel_rate_kg_s, time_sec) ==
    KgToLb(TDiv(MulDiv(fuel_rate_kg_s, time_sec, 1000), 100))

\* (battery_power_W * time_sec) / 3600
BatteryConsumed(battery_power_W, time_sec) == MulDiv(battery_power_W, time_sec, 3600)

\* Each simulate_*_segment yields the tuple (t, f, b) it returns and the
\* distance_nm it leaves on the segment.
\* V_fps = self.cruise_speed_kts * 1.688
CruiseSpeed(self) == MulDiv(self.cruise_speed_kts, 1688, 100)

\* the shaft power of the cruise: drag at the cruise speed over the propeller
CruiseShaftPower(self, powertrain, segment, W_lb, S_ft2) ==
    LET h_m == MulDiv(segment.altitude_start_ft, 3048, 10000)
        rho_kg_m3 == atmosisa_rho(h_m)
        rho_slug_ft3 == TDiv(rho_kg_m3 * 100000, 515379)
        V_fps == CruiseSpeed(self)
        qS == DynamicPressureArea(rho_slug_ft3, V_fps, S_ft2)
        CL == MulDiv(W_lb, 1000, qS)
        CD == DragPolar(self, CL)
        D_lb == MulDiv(qS, CD, 10000)
    IN  ShaftPower(D_lb, V_fps, powertrain.tech.prop_efficiency)

\* variant of CruiseTime that divides the nautical miles by the knots
CruiseTime_hours(self) == TDiv(self.range_nm, self.cruise_speed_kts)

\* distance_ft = self.range_nm * 6076.12; time_sec = distance_ft / V_fps
CruiseTime(self) ==
    LET distance_ft == MulDiv(self.range_nm, 607612, 100)
    IN  MulDiv(distance_ft, 10, CruiseSpeed(self))

simulate_cruise_segment(self, powertrain, segment, W_lb, S_ft2) ==
    LET P_shaft_kW == CruiseShaftPower(self, powertrain, segment, W_lb, S_ft2)
        power_split == get_power_split(powertrain, P_shaft_kW, segment.Hp)
        time_sec == CruiseTime(self)
    IN  [ t |-> time_sec,
          f |-> FuelConsumed(power_split.fuel_rate_kg_s, time_sec),
          b |-> BatteryConsumed(power_split.battery_power_W, time_sec),
          distance_nm |-> self.range_nm ]

\* a float that is not a number
NaN == "NaN"

\* the lift coefficient the climb takes its stall speed from
ClimbCLmax(self, segment) == self.CLmax_clean

\* np.sqrt(2 * W_avg / (rho_sl * S_ft2 * CLmax)); of a negative number numpy
\* returns nan, for which this holds 0: `nan > 0` is False as `0 > 0` is
ClimbStallSpeed(W_avg, S_ft2, CLmax) ==
    LET rho_sl == 2377
        rhoSCL == MulDiv(MulDiv(rho_sl, S_ft2, 100), CLmax, 10000)
    IN  Sqrt(100 * MulDiv(2 * W_avg, 100, rhoSCL))

\* V_climb_fps = 1.3 * V_stall_fps
ClimbSpeed(V_stall_fps) == MulDiv(V_stall_fps, 13, 10)

\* ROC_fps = V_climb_fps * gamma, gamma = 0.05
ClimbRate(V_climb_fps) == MulDiv(V_climb_fps, 50, 100)

\* variant of ClimbTime that divides by a floor rate of 0.01 ft/s instead
ClimbTime_floor(alt_change_ft, ROC_fps) ==
    IF ROC_fps > 0 THEN MulDiv(alt_change_ft, 100, ROC_fps)
    ELSE MulDiv(alt_change_ft, 100, 1)

\* time_sec = alt_change_ft / ROC_fps if ROC_fps > 0 else 600
ClimbTime(alt_change_ft, ROC_fps) ==
    IF ROC_fps > 0 THEN MulDiv(alt_change_ft, 100, ROC_fps) ELSE 600

\* The climb with no lift to carry (W_avg <= 0): the stall speed is 0.0 or
\* nan, CL_climb is 0/0 or nan, so the shaft power handed to get_power_split
\* is nan and so is every share that is computed from it; the shares a
\* variant returns as the literal 0.0 stay 0.
simulate_climb_segment_nan(self, powertrain, segment, W_lb, S_ft2) ==
    LET V_stall_fps == ClimbStallSpeed(MulDiv(W_lb, 99, 100), S_ft2, ClimbCLmax(self, segment))
        ROC_fps == ClimbRate(ClimbSpeed(V_stall_fps))
        alt_change_ft == segment.altitude_end_ft - segment.altitude_start_ft
    IN  [ t |-> ClimbTime(alt_change_ft, ROC_fps),
          f |-> IF powertrain.kind = "FullyElectric" THEN 0 ELSE NaN,
          b |-> IF powertrain.kind = "Conventional" THEN 0 ELSE NaN,
          distance_nm |-> segment.distance_nm ]

simulate_climb_segment(self, powertrain, segment, W_lb, S_ft2) ==
    IF MulDiv(W_lb, 99, 100) <= 0
    THEN simulate_climb_segment_nan(self, powertrain, segment, W_lb, S_ft2)
    ELSE
    LET W_avg == MulDiv(W_lb, 99, 100)
        rho_sl == 2377
        V_stall_fps == ClimbStallSpeed(W_avg, S_ft2, ClimbCLmax(self, segment))
        V_climb_fps == ClimbSpeed(V_stall_fps)
        gamma == 50
        ROC_fps == ClimbRate(V_climb_fps)
        qS == DynamicPressureArea(rho_sl, V_climb_fps, S_ft2)
        CL_climb == MulDiv(W_avg, 1000, qS)
        CD_climb == DragPolar(self, CL_climb)
        LoverD == MulDiv(CL_climb, 10000, CD_climb)
        T_lb == MulDiv(W_avg, TDiv(1000000, LoverD) + gamma, 1000)
        P_shaft_kW == ShaftPower(T_lb, V_climb_fps, powertrain.tech.prop_efficiency)
        power_split == get_power_split(powertrain, P_shaft_kW, segment.Hp)
        alt_change_ft == segment.altitude_end_ft - segment.altitude_start_ft
        time_sec == ClimbTime(alt_change_ft, ROC_fps)
    IN  [ t |-> time_sec,
          f |-> FuelConsumed(power_split.fuel_rate_kg_s, time_sec),
          b |-> BatteryConsumed(power_split.battery_power_W, time_sec),
          distance_nm |-> segment.distance_nm ]

simulate_descent_segment(self, powertrain, segment, W_lb, S_ft2) ==
    [ t |-> 480, f |-> MulDiv(W_lb, 2, 100), b |-> 100,
      distance_nm |-> segment.distance_nm ]

\* variant of simulate_simple_segment that burns fuel for the turbine share only
simulate_simple_segment_share(self, powertrain, segment, W_lb, S_ft2) ==
    [ t |-> 180, f |-> MulDiv(MulDiv(W_lb, 1, 100), 1000 - segment.Hp, 1000), b |-> 200,
      distance_nm |-> segment.distance_nm ]

simulate_simple_segment(self, powertrain, segment, W_lb, S_ft2) ==
    [ t |-> 180, f |-> MulDiv(W_lb, 1, 100), b |-> 200,
      distance_nm |-> segment.distance_nm ]

\* the if / elif chain on segment.name in the loop of simulate_mission
SimulateOne(self, powertrain, segment, W_lb, S_ft2) ==
    IF segment.name = "cruise"
    THEN simulate_cruise_segment(self, powertrain, segment, W_lb, S_ft2)
    ELSE IF segment.name = "climb"
    THEN simulate_climb_segment(self, powertrain, segment, W_lb, S_ft2)
    ELSE IF segment.name = "descent"
    THEN simulate_descent_segment(self, powertrain, segment, W_lb, S_ft2)
    ELSE simulate_simple_segment(self, powertrain, segment, W_lb, S_ft2)

\* variant of UpdateWeight that also takes the battery draw off the weight
UpdateWeight_battery(W, f, b) == W - f - b

\* W_current_lb -= f
UpdateWeight(W, f, b) == W - f

\* variant of StoreResults that adds to what the segment holds
StoreResults_add(segment, r) ==
    [ segment EXCEPT !.time_sec = @ + r.t, !.fuel_lb = @ + r.f, !.battery_Wh = @ + r.b,
                     !.distance_nm = r.distance_nm ]

\* segment.time_sec = t; segment.fuel_lb = f; segment.battery_Wh = b
StoreResults(segment, r) ==
    [ segment EXCEPT !.time_sec = r.t, !.fuel_lb = r.f, !.battery_Wh = r.b,
                     !.distance_nm = r.distance_nm ]

\* variant of Accumulate that assigns instead of adding
Accumulate_assign(total, x) == x

\* total += x
Accumulate(total, x) == total + x

\* variant of NextSegmentIndex that passes over a segment with no altitude change
NextSegmentIndex_skip(segs, i) ==
    IF i + 1 <= Len(segs) /\ segs[i + 1].altitude_start_ft = segs[i + 1].altitude_end_ft
    THEN i + 2
    ELSE i + 1

\* `for segment in segments`: the loop moves to the element after this one
NextSegmentIndex(segs, i) == i + 1

\* the dict simulate_mission returns; 'segments' is the list passed in
MissionResult(fuel, battery, time, segs) ==
    [ total_fuel_lb |-> fuel, total_battery_Wh |-> battery,
      total_time_sec |-> time, segments |-> segs ]

(***************************************************************************)
(* The powertrain API as a state machine: an object of one of the four     *)
(* classes, on which size_components and get_power_split are called with  *)
(* any arguments in any order.                                             *)
(***************************************************************************)
\* the hybridization_profile argument left out
NoProfile == [ k \in { "None" } |-> 0 ]

\* the sizing engine's state on a new object: size_aircraft has not been called on this object yet
SizingIdle(Hp_design) ==
    [ pc |-> "idle", Hp_design |-> Hp_design, hybridization_profile |-> NoProfile,
      max_iterations |-> 0, tolerance |-> 0, iteration |-> 0,
      TOGW_lb |-> 0, converged |-> FALSE, last |-> None,
      result |-> None, exc |-> "none", log |-> << >>, again |-> FALSE ]

\* the dep_system block of the configuration document
DepSystem(enabled, blown_span_fraction, use_for_wing_sizing) ==
    [ enabled |-> enabled, blown_span_fraction |-> blown_span_fraction,
      lift_augmentation_factor_max |-> 1800,
      number_of_highlift_motors |-> (12 * blown_span_fraction) \div 650,
      use_for_wing_sizing |-> use_for_wing_sizing ]

\* the block the driver scripts leave: full coverage, used for the wing
DepDefault == DepSystem(TRUE, 650, TRUE)

\* the blocks a sizing run is made with: blown lift enabled or not, used
\* for the wing or not
SizingDepConfigs == { DepSystem(e, 650, u) : e \in BOOLEAN, u \in BOOLEAN }

\* the blocks a driver script may find: also without any coverage
DepConfigs == { DepSystem(e, f, u) : e \in BOOLEAN, f \in { 0, 650 }, u \in BOOLEAN }

\* no driver script has been started
DrvIdle ==
    [ script |-> "none", pc |-> "idle", original_setting |-> FALSE,
      started_with |-> FALSE, i |-> 0, lift_aug |-> 0 ]

MissionIdle ==
    /\ segments = << >>
    /\ profile = EmptyProfile
    /\ pc = "idle"
    /\ idx = 0
    /\ TOGW_lb = 0
    /\ S_wing_ft2 = 0
    /\ W_current_lb = 0
    /\ total_fuel_lb = 0
    /\ total_battery_Wh = 0
    /\ total_time_sec = 0
    /\ result = None
    /\ simLog = << >>

Constructed ==
    /\ pt \in { PowertrainBase_init(kind, tech) : kind \in Kinds, tech \in TechSpecs }
    /\ lastCall = [ op |-> "__init__", P |-> 0, Hp |-> 0 ]
    /\ ret = None
    /\ exc = "none"

InitPowertrain ==
    /\ Constructed
    /\ ac = Aircraft(400)
    /\ MissionIdle
    /\ sz = SizingIdle(0)
    /\ config = DepDefault
    /\ drv = DrvIdle

SizeComponents(P, Hp) ==
    LET out == Call_size_components(pt, P, Hp)
    IN  /\ pt' = out.self
        /\ ret' = out.ret
        /\ exc' = out.exc
        /\ lastCall' = [ op |-> "size_components", P |-> P, Hp |-> Hp ]
        /\ UNCHANGED << missionVars, sz, drvVars >>

GetPowerSplit(P, Hp) ==
    LET out == Call_get_power_split(pt, P, Hp)
    IN  /\ pt' = out.self
        /\ ret' = out.ret
        /\ exc' = out.exc
        /\ lastCall' = [ op |-> "get_power_split", P |-> P, Hp |-> Hp ]
        /\ UNCHANGED << missionVars, sz, drvVars >>

NextPowertrain ==
    \E P \in PowerInputs, Hp \in HpInputs :
        \/ SizeComponents(P, Hp)
        \/ GetPowerSplit(P, Hp)

SpecPowertrain == InitPowertrain /\ [][NextPowertrain]_vars

(***************************************************************************)
(* The mission simulator as a state machine: create_mission, then          *)
(* simulate_mission stepping through its for loop, one segment a step.     *)
(***************************************************************************)
Init ==
    /\ Constructed
    /\ ac \in Aircrafts
    /\ MissionIdle
    /\ sz = SizingIdle(0)
    /\ config = DepDefault
    /\ drv = DrvIdle

CreateMission(p) ==
    /\ pc \in { "idle", "done" }
    /\ segments' = create_mission(ac, p)
    /\ profile' = p
    /\ pc' = "created"
    /\ UNCHANGED << sz, drvVars, ptVars, ac, idx, TOGW_lb, S_wing_ft2, W_current_lb, total_fuel_lb,
                    total_battery_Wh, total_time_sec, result, simLog >>

\* simulate_mission is entered: on a fresh list, or again on a simulated one
SimulateMissionEnter(T, S) ==
    /\ pc \in { "created", "done" }
    /\ TOGW_lb' = T
    /\ S_wing_ft2' = S
    /\ W_current_lb' = T
    /\ total_fuel_lb' = 0
    /\ total_battery_Wh' = 0
    /\ total_time_sec' = 0
    /\ idx' = 1
    /\ pc' = "loop"
    /\ result' = None
    /\ simLog' = << >>
    /\ UNCHANGED << sz, drvVars, ptVars, ac, segments, profile >>

\* one pass through the body of `for segment in segments`
SimulateSegment ==
    /\ pc = "loop"
    /\ idx <= Len(segments)
    /\ LET segment == segments[idx]
           r == SimulateOne(ac, pt, segment, W_current_lb, S_wing_ft2)
       IN  /\ W_current_lb' = UpdateWeight(W_current_lb, r.f, r.b)
           /\ segments' = [ segments EXCEPT ![idx] = StoreResults(segment, r) ]
           /\ total_fuel_lb' = Accumulate(total_fuel_lb, r.f)
           /\ total_battery_Wh' = Accumulate(total_battery_Wh, r.b)
           /\ total_time_sec' = Accumulate(total_time_sec, r.t)
           /\ simLog' = Append(simLog, [ name |-> segment.name, W_in |-> W_current_lb ])
    /\ idx' = NextSegmentIndex(segments, idx)
    /\ UNCHANGED << sz, drvVars, ptVars, ac, profile, pc, TOGW_lb, S_wing_ft2, result >>

\* the list is exhausted: the return statement
SimulateMissionReturn ==
    /\ pc = "loop"
    /\ idx > Len(segments)
    /\ result' = MissionResult(total_fuel_lb, total_battery_Wh, total_time_sec, segments)
    /\ pc' = "done"
    /\ UNCHANGED << sz, drvVars, ptVars, ac, segments, profile, idx, TOGW_lb, S_wing_ft2, W_current_lb,
                    total_fuel_lb, total_battery_Wh, total_time_sec, simLog >>

Next ==
    \/ \E p \in Profiles : CreateMission(p)
    \/ \E T \in TOGWInputs, S \in SInputs : SimulateMissionEnter(T, S)
    \/ SimulateSegment
    \/ SimulateMissionReturn

Spec == Init /\ [][Next]_vars

(***************************************************************************)
(* Sizing engine (HybridElectricAircraft.size_aircraft).  The module that  *)
(* holds it is not among the sources; the definitions below follow the     *)
(* design description of the convergence loop, section 4.4, step by step,  *)
(* and call the powertrain and mission definitions above.                  *)
(***************************************************************************)
MaxIterations == 4

\* TOGW estimates above this (0.1 lb) are not iterated on in the model: the
\* products of the next mission would leave the 32-bit range
MaxSizingWeight == 600000

\* max_iterations arguments
IterationInputs == 1..MaxIterations

\* tolerance arguments (1/1000): 0.01, 0.03, 0.1
ToleranceInputs == { 10, 30, 100 }

\* Hp_design arguments of set_powertrain
HpDesignInputs == { 0, 300 }

\* the configuration values the engine reads at construction: payload
\* (0.1 lb), rough TOGW guess (0.1 lb), wing-loading target (lb/ft^2),
\* power-to-weight target (W per lb), wing weight per area (0.1 lb/ft^2),
\* weight fractions of TOGW (1/1000)
SizingConfig ==
    [ payload_lb |-> 18000, TOGW_guess_lb |-> 50000, wing_loading_psf |-> 30,
      power_to_weight_W_lb |-> 75, wing_lb_ft2 |-> 25,
      fuselage_fraction |-> 100, empennage_fraction |-> 20,
      gear_fraction |-> 40, propulsion_fraction |-> 20, systems_fraction |-> 100 ]

\* the profile the mission is built with: the one given, or Hp_design on
\* every segment when none is given
SizingProfile(hybridization_profile, Hp_design) ==
    IF hybridization_profile = NoProfile
    THEN [ k \in { "takeoff", "climb", "cruise", "descent", "loiter", "landing" } |-> Hp_design ]
    ELSE hybridization_profile

\* simulate_mission as one call: the loop over the list from element i on;
\* r is the (t, f, b) tuple of the segment, computed once
RECURSIVE MissionLoop(_, _, _, _, _, _, _, _, _)
MissionLoop(self, powertrain, segs, i, W_lb, S_ft2, fuel, battery, time) ==
    IF i > Len(segs)
    THEN MissionResult(fuel, battery, time, segs)
    ELSE CHOOSE out \in
            { MissionLoop(self, powertrain,
                          [ segs EXCEPT ![i] = StoreResults(segs[i], r) ],
                          NextSegmentIndex(segs, i), UpdateWeight(W_lb, r.f, r.b), S_ft2,
                          Accumulate(fuel, r.f), Accumulate(battery, r.b),
                          Accumulate(time, r.t)) :
              r \in { SimulateOne(self, powertrain, segs[i], W_lb, S_ft2) } } : TRUE

simulate_mission(self, powertrain, segs, T_lb, S_ft2) ==
    MissionLoop(self, powertrain, segs, 1, T_lb, S_ft2, 0, 0, 0)

\* the configuration document as loaded: the sizing targets and the
\* dep_system block the file holds
LoadedConfig(dep_system) == [ dep_system |-> dep_system ] @@ SizingConfig

\* augmentation_factor(active, span_fraction, max_factor): 1.0 when blown lift
\* is not active or the DEP system is disabled, else linear in the coverage
get_lift_augmentation_factor(dep_system, blown_lift_active) ==
    IF ~blown_lift_active \/ ~dep_system.enabled
    THEN 1000
    ELSE 1000 + MulDiv(dep_system.lift_augmentation_factor_max - 1000,
                       dep_system.blown_span_fraction, 1000)

\* variant of WingArea that never uses the augmentation
WingArea_plain(cfg, T_lb) == TDiv(TDiv(T_lb, 10), cfg.wing_loading_psf)

\* step 1: wing area from TOGW and the wing-loading target, the target
\* augmented by the blown-lift factor if the wing sizing is configured to
\* use it (stall speed scales as 1/sqrt(factor), the area as 1/factor)
WingArea(cfg, T_lb) ==
    IF cfg.dep_system.use_for_wing_sizing
    THEN MulDiv(TDiv(TDiv(T_lb, 10), cfg.wing_loading_psf), 1000,
                get_lift_augmentation_factor(cfg.dep_system, TRUE))
    ELSE TDiv(TDiv(T_lb, 10), cfg.wing_loading_psf)

\* step 2: shaft power from TOGW and the power-to-weight target
RequiredShaftPower(cfg, T_lb) == MulDiv(T_lb, cfg.power_to_weight_W_lb, 10)

\* step 4: energy demand / (specific energy * DOD), inflated by the SOC margin
BatteryWeight(tech, battery_Wh) ==
    LET kg10 == MulDiv(MulDiv(battery_Wh, 10, tech.battery_specific_energy_Wh_kg),
                       1000, tech.battery_DOD)
    IN  KgToLb(MulDiv(kg10, 1000 + tech.battery_SOC_margin, 1000))

\* step 5: the weight-fraction structural model with its six categories,
\* driven by TOGW and wing area
WeightBreakdown(cfg, powertrain, T_lb, S_ft2) ==
    [ wing |-> cfg.wing_lb_ft2 * S_ft2,
      fuselage |-> MulDiv(T_lb, cfg.fuselage_fraction, 1000),
      empennage |-> MulDiv(T_lb, cfg.empennage_fraction, 1000),
      gear |-> MulDiv(T_lb, cfg.gear_fraction, 1000),
      propulsion |-> MulDiv(T_lb, cfg.propulsion_fraction, 1000),
      systems |-> MulDiv(T_lb, cfg.systems_fraction, 1000) ]

\* step 5: the empty weight is the sum of the structural model's categories
EmptyWeight(wb) ==
    wb.wing + wb.fuselage + wb.empennage + wb.gear + wb.propulsion + wb.systems

\* the propulsion weight of step 6: the components sized in step 2
PropulsionWeight(powertrain) ==
    powertrain.m_GT_lb + powertrain.m_EM_lb + powertrain.m_GEN_lb

\* step 6
NewTOGW(cfg, wb, powertrain, W_fuel_lb, W_battery_lb) ==
    cfg.payload_lb + EmptyWeight(wb) + PropulsionWeight(powertrain)
        + W_fuel_lb + W_battery_lb

\* variant of Infeasible that looks at the new TOGW only
Infeasible_total(it) == it.TOGW_new_lb < 0

\* an intermediate weight, area or power of the iteration is negative
Infeasible(it) ==
    \/ it.S_wing_ft2 < 0
    \/ it.TOGW_old_lb - it.W_fuel_lb < 0
    \/ it.P_shaft_kW < 0
    \/ it.W_fuel_lb < 0
    \/ it.W_battery_lb < 0
    \/ \E k \in 1..Len(it.mission.segments) :
          it.mission.segments[k].fuel_lb < 0 \/ it.mission.segments[k].battery_Wh < 0
    \/ \E c \in DOMAIN it.weight_breakdown : it.weight_breakdown[c] < 0
    \/ it.TOGW_new_lb < 0

\* |new TOGW - old TOGW| / old TOGW, in 1/1000
RelativeChange(old_lb, new_lb) == MulDiv(Abs(new_lb - old_lb), 1000, old_lb)

\* variant of MeetsTolerance that stops while the estimate still moves
MeetsTolerance_moving(old_lb, new_lb, tolerance) ==
    RelativeChange(old_lb, new_lb) >= tolerance

\* step 7: the convergence predicate
MeetsTolerance(old_lb, new_lb, tolerance) ==
    RelativeChange(old_lb, new_lb) < tolerance

\* steps 1 to 6 of one iteration on the estimate T_lb
SizingIteration(cfg, self, powertrain, prof, Hp_design, T_lb) ==
    LET S == WingArea(cfg, T_lb)
        P == RequiredShaftPower(cfg, T_lb)
        sized == size_components(powertrain, P, Hp_design)
        mission == simulate_mission(self, sized, create_mission(self, prof), T_lb, S)
        W_battery == BatteryWeight(sized.tech, mission.total_battery_Wh)
        wb == WeightBreakdown(cfg, sized, T_lb, S)
    IN  [ TOGW_old_lb |-> T_lb, S_wing_ft2 |-> S, P_shaft_kW |-> P,
          powertrain |-> sized, mission |-> mission,
          W_fuel_lb |-> mission.total_fuel_lb, W_battery_lb |-> W_battery,
          weight_breakdown |-> wb,
          TOGW_new_lb |-> NewTOGW(cfg, wb, sized, mission.total_fuel_lb, W_battery) ]

\* the record size_aircraft returns, from its last iteration
SizingResult(it, converged) ==
    [ TOGW_lb |-> it.TOGW_new_lb, S_wing_ft2 |-> it.S_wing_ft2,
      WS_psf |-> TDiv(TDiv(it.TOGW_new_lb, 10), it.S_wing_ft2),
      W_fuel_lb |-> it.W_fuel_lb, W_battery_lb |-> it.W_battery_lb,
      OEW_lb |-> EmptyWeight(it.weight_breakdown) + PropulsionWeight(it.powertrain),
      weight_breakdown |-> it.weight_breakdown, converged |-> converged ]

\* variant of InitialGuess that starts from the estimate the object holds
InitialGuess_kept(cfg, held_lb) == IF held_lb > 0 THEN held_lb ELSE cfg.TOGW_guess_lb

\* initialize TOGW from a rough sizing guess
InitialGuess(cfg, held_lb) == cfg.TOGW_guess_lb

\* variant of NextEstimate that keeps the old estimate
NextEstimate_stale(old_lb, new_lb) == old_lb

\* set old TOGW = new TOGW
NextEstimate(old_lb, new_lb) == new_lb

\* variant of LoopExhausted that allows one pass more
LoopExhausted_late(iteration, max_iterations) == iteration > max_iterations

\* `repeat up to max_iterations times`: no pass is left
LoopExhausted(iteration, max_iterations) == iteration >= max_iterations

\* the mission requirements sized for: a commuter and a long-range mission
SizingAircrafts == { Aircraft(r) : r \in { 150, 4000 } }

\* size_aircraft as one call on a powertrain and an estimate: what it
\* returns or raises, and the number of iterations it performs
RECURSIVE SizingLoop(_, _, _, _, _, _, _, _, _)
SizingLoop(cfg, self, powertrain, prof, Hp_design, max_iterations, tolerance, i, T_lb) ==
    LET it == SizingIteration(cfg, self, powertrain, prof, Hp_design, T_lb)
    IN  IF Infeasible(it)
        THEN [ exc |-> "InfeasibleDesign", result |-> None, iterations |-> i + 1 ]
        ELSE IF MeetsTolerance(T_lb, it.TOGW_new_lb, tolerance)
        THEN [ exc |-> "none", result |-> SizingResult(it, TRUE), iterations |-> i + 1 ]
        ELSE IF LoopExhausted(i + 1, max_iterations)
        THEN [ exc |-> "none", result |-> SizingResult(it, FALSE), iterations |-> i + 1 ]
        ELSE IF NextEstimate(T_lb, it.TOGW_new_lb) > MaxSizingWeight
        THEN [ exc |-> "beyond MaxSizingWeight", result |-> None, iterations |-> i + 1 ]
        ELSE SizingLoop(cfg, self, it.powertrain, prof, Hp_design, max_iterations,
                        tolerance, i + 1, NextEstimate(T_lb, it.TOGW_new_lb))

size_aircraft(cfg, self, powertrain, hybridization_profile, Hp_design, max_iterations, tolerance) ==
    SizingLoop(cfg, self, powertrain, SizingProfile(hybridization_profile, Hp_design),
               Hp_design, max_iterations, tolerance, 0, InitialGuess(cfg, 0))

(***************************************************************************)
(* The sizing engine as a state machine: set_powertrain binds the variant, *)
(* size_aircraft is entered, runs its loop one iteration a step, and       *)
(* returns or raises; it may then be called again on the same object.      *)
(***************************************************************************)
InitSizing ==
    /\ pt \in { PowertrainBase_init(kind, TechnologySpec(900, 950)) : kind \in Kinds }
    /\ lastCall = [ op |-> "__init__", P |-> 0, Hp |-> 0 ]
    /\ ret = None
    /\ exc = "none"
    /\ ac \in SizingAircrafts
    /\ MissionIdle
    /\ \E Hp_design \in HpDesignInputs : sz = SizingIdle(Hp_design)
    /\ config \in SizingDepConfigs
    /\ drv = DrvIdle

SizeAircraftEnter(p, max_iterations, tolerance) ==
    /\ sz.pc \in { "idle", "returned", "raised" }
    /\ sz' = [ sz EXCEPT !.pc = "loop", !.hybridization_profile = p,
                         !.max_iterations = max_iterations, !.tolerance = tolerance,
                         !.iteration = 0,
                         !.TOGW_lb = InitialGuess(LoadedConfig(config), sz.TOGW_lb),
                         !.converged = FALSE, !.last = None, !.result = None,
                         !.exc = "none", !.log = << >>,
                         !.again = (sz.pc # "idle") ]
    /\ UNCHANGED << drvVars, ptVars, missionVars >>

\* one pass through the body of the convergence loop
SizeIterate ==
    /\ sz.pc = "loop"
    /\ ~sz.converged
    /\ ~LoopExhausted(sz.iteration, sz.max_iterations)
    /\ sz.TOGW_lb <= MaxSizingWeight
    /\ \E it \in { SizingIteration(LoadedConfig(config), ac, pt,
                                    SizingProfile(sz.hybridization_profile, sz.Hp_design),
                                    sz.Hp_design, sz.TOGW_lb) } :
       LET prof == SizingProfile(sz.hybridization_profile, sz.Hp_design)
           bad == Infeasible(it)
           met == ~bad /\ MeetsTolerance(sz.TOGW_lb, it.TOGW_new_lb, sz.tolerance)
       IN  /\ pt' = it.powertrain
           /\ segments' = it.mission.segments
           /\ profile' = prof
           /\ TOGW_lb' = sz.TOGW_lb
           /\ S_wing_ft2' = it.S_wing_ft2
           /\ result' = it.mission
           /\ sz' = [ sz EXCEPT
                  !.iteration = @ + 1,
                  !.last = it,
                  !.pc = IF bad THEN "raised" ELSE "loop",
                  !.exc = IF bad THEN "InfeasibleDesign" ELSE "none",
                  !.converged = met,
                  !.TOGW_lb = IF bad \/ met THEN @ ELSE NextEstimate(@, it.TOGW_new_lb),
                  !.log = Append(@, [ old |-> sz.TOGW_lb, new |-> it.TOGW_new_lb,
                                      bad |-> bad, met |-> met ]) ]
    /\ UNCHANGED << drvVars, lastCall, ret, exc, ac, pc, idx, W_current_lb, total_fuel_lb,
                    total_battery_Wh, total_time_sec, simLog >>

\* the loop has stopped or is exhausted: the return statement
SizeAircraftReturn ==
    /\ sz.pc = "loop"
    /\ sz.converged \/ LoopExhausted(sz.iteration, sz.max_iterations)
    /\ sz' = [ sz EXCEPT !.pc = "returned",
                         !.result = SizingResult(sz.last, sz.converged) ]
    /\ UNCHANGED << drvVars, ptVars, missionVars >>

NextSizing ==
    \/ \E p \in { NoProfile, Profiles_estol }, n \in IterationInputs, t \in ToleranceInputs :
          SizeAircraftEnter(p, n, t)
    \/ SizeIterate
    \/ SizeAircraftReturn

SpecSizing == InitSizing /\ [][NextSizing]_vars

(***************************************************************************)
(* The segment simulators called on their own, with any weight and wing    *)
(* area a caller can hand them.                                            *)
(***************************************************************************)
\* weights handed to a segment simulator (0.1 lb): negative, none, and the
\* take-off gross weights of the mission runs
SegmentWeightInputs == { -60000, 0 } \cup TOGWInputs

InitSegment ==
    /\ Constructed
    /\ ac \in Aircrafts
    /\ MissionIdle
    /\ sz = SizingIdle(0)
    /\ config = DepDefault
    /\ drv = DrvIdle

SimulateClimb(p, W_lb, S_ft2) ==
    LET segment == create_mission(ac, p)[2]
    IN  /\ lastCall' = [ op |-> "simulate_climb_segment", segment |-> segment,
                         W_lb |-> W_lb, S_ft2 |-> S_ft2 ]
        /\ ret' = simulate_climb_segment(ac, pt, segment, W_lb, S_ft2)
        /\ exc' = "none"
        /\ UNCHANGED << pt, missionVars, sz, drvVars >>

SimulateCruise(p, W_lb, S_ft2) ==
    LET segment == create_mission(ac, p)[3]
    IN  /\ lastCall' = [ op |-> "simulate_cruise_segment", segment |-> segment,
                         W_lb |-> W_lb, S_ft2 |-> S_ft2 ]
        /\ ret' = simulate_cruise_segment(ac, pt, segment, W_lb, S_ft2)
        /\ exc' = "none"
        /\ UNCHANGED << pt, missionVars, sz, drvVars >>

NextSegment ==
    \/ \E p \in Profiles, W_lb \in SegmentWeightInputs, S_ft2 \in SInputs :
          SimulateClimb(p, W_lb, S_ft2)
    \/ \E p \in Profiles, W_lb \in SegmentWeightInputs, S_ft2 \in SInputs :
          SimulateCruise(p, W_lb, S_ft2)

SpecSegment == InitSegment /\ [][NextSegment]_vars

(***************************************************************************)
(* The driver scripts that rewrite meow/config.json between sizing runs.   *)
(* A sizing run is a call into the sizing engine: seen from the script it  *)
(* returns a converged result, returns an unconverged one, or raises.      *)
(***************************************************************************)
SizingOutcomes == { "converged", "not converged", "raised" }

\* no script is running
ScriptOver == drv.pc \in { "idle", "ended", "raised" }

InitDrivers ==
    /\ pt = PowertrainBase_init("ParallelHybrid", TechnologySpec(900, 950))
    /\ lastCall = [ op |-> "__init__", P |-> 0, Hp |-> 0 ]
    /\ ret = None
    /\ exc = "none"
    /\ ac = Aircraft(400)
    /\ MissionIdle
    /\ sz = SizingIdle(0)
    /\ config \in DepConfigs
    /\ drv = DrvIdle

\* a script is started on the file as it stands
StartScript(script, at) ==
    [ DrvIdle EXCEPT !.script = script, !.pc = at,
                     !.started_with = config.use_for_wing_sizing ]

\* compare_wing_sizing: load the file, keep the setting, write False
CompareStart ==
    /\ ScriptOver
    /\ drv' = [ StartScript("compare_wing_sizing", "case1") EXCEPT
                  !.original_setting = config.use_for_wing_sizing ]
    /\ config' = [ config EXCEPT !.use_for_wing_sizing = FALSE ]
    /\ UNCHANGED << ptVars, missionVars, sz >>

\* the traditional sizing run, outside any try; then write True
CompareCase1(outcome) ==
    /\ drv.script = "compare_wing_sizing"
    /\ drv.pc = "case1"
    /\ IF outcome = "raised"
       THEN /\ drv' = [ drv EXCEPT !.pc = "raised" ]
            /\ UNCHANGED config
       ELSE /\ drv' = [ drv EXCEPT !.pc = "case2" ]
            /\ config' = [ config EXCEPT !.use_for_wing_sizing = TRUE ]
    /\ UNCHANGED << ptVars, missionVars, sz >>

\* the blown-lift sizing run, outside any try; then write original_setting
CompareCase2(outcome) ==
    /\ drv.script = "compare_wing_sizing"
    /\ drv.pc = "case2"
    /\ IF outcome = "raised"
       THEN /\ drv' = [ drv EXCEPT !.pc = "raised" ]
            /\ UNCHANGED config
       ELSE /\ drv' = [ drv EXCEPT !.pc = "ended" ]
            /\ config' = [ config EXCEPT !.use_for_wing_sizing = drv.original_setting ]
    /\ UNCHANGED << ptVars, missionVars, sz >>

\* analyze_electric_blown_lift: load the file, write False
ElectricStart ==
    /\ ScriptOver
    /\ drv' = StartScript("analyze_electric_blown_lift", "elec_trad")
    /\ config' = [ config EXCEPT !.use_for_wing_sizing = FALSE ]
    /\ UNCHANGED << ptVars, missionVars, sz >>

\* the electric runs, each inside try / except; then write True, then False
ElectricCase(outcome) ==
    /\ drv.script = "analyze_electric_blown_lift"
    /\ drv.pc \in { "elec_trad", "elec_blown" }
    /\ drv' = [ drv EXCEPT !.pc = IF @ = "elec_trad" THEN "elec_blown" ELSE "serial_trad" ]
    /\ config' = [ config EXCEPT !.use_for_wing_sizing = (drv.pc = "elec_trad") ]
    /\ UNCHANGED << ptVars, missionVars, sz >>

\* the traditional serial run, outside any try; then write True
SerialCase1(outcome) ==
    /\ drv.script = "analyze_electric_blown_lift"
    /\ drv.pc = "serial_trad"
    /\ IF outcome = "raised"
       THEN /\ drv' = [ drv EXCEPT !.pc = "raised" ]
            /\ UNCHANGED config
       ELSE /\ drv' = [ drv EXCEPT !.pc = "serial_blown" ]
            /\ config' = [ config EXCEPT !.use_for_wing_sizing = TRUE ]
    /\ UNCHANGED << ptVars, missionVars, sz >>

\* the blown-lift serial run, outside any try; then the report and
\* `Restore original config`: read the file again and write True
SerialCase2(outcome) ==
    /\ drv.script = "analyze_electric_blown_lift"
    /\ drv.pc = "serial_blown"
    /\ IF outcome = "raised"
       THEN /\ drv' = [ drv EXCEPT !.pc = "raised" ]
            /\ UNCHANGED config
       ELSE /\ drv' = [ drv EXCEPT !.pc = "ended" ]
            /\ config' = [ config EXCEPT !.use_for_wing_sizing = TRUE ]
    /\ UNCHANGED << ptVars, missionVars, sz >>

\* blowing_ratios, run once for the serial and once for the parallel design
BlowingRatios == << 0, 250, 350, 500, 650 >>

\* analyze_blowing_ratio_sensitivity: analyze_blowing_ratios is entered
BlowingStart ==
    /\ ScriptOver
    /\ drv' = [ StartScript("analyze_blowing_ratio_sensitivity", "ratios") EXCEPT !.i = 1 ]
    /\ UNCHANGED << config, ptVars, missionVars, sz >>

\* what test_blowing_ratio reports as the lift augmentation of a coverage
ReportedLiftAugmentation(dep_system, blown_span_fraction) ==
    IF blown_span_fraction > 0
    THEN 1000 + MulDiv(dep_system.lift_augmentation_factor_max - 1000,
                       blown_span_fraction, 1000)
    ELSE 1000

\* test_blowing_ratio: rewrite coverage, motor count and use_for_wing_sizing,
\* size inside try / except, report the augmentation of a converged design
\* (lift_aug 0: the call returned None)
TestBlowingRatio(outcome) ==
    /\ drv.script = "analyze_blowing_ratio_sensitivity"
    /\ drv.pc = "ratios"
    /\ drv.i <= 2 * Len(BlowingRatios)
    /\ LET blown_span_fraction == BlowingRatios[((drv.i - 1) % Len(BlowingRatios)) + 1]
           num_motors == IF (12 * blown_span_fraction) \div 650 > 1
                         THEN (12 * blown_span_fraction) \div 650 ELSE 1
       IN  /\ config' = [ config EXCEPT
                    !.blown_span_fraction = blown_span_fraction,
                    !.number_of_highlift_motors =
                        IF blown_span_fraction > 0 THEN num_motors ELSE 0,
                    !.use_for_wing_sizing = (blown_span_fraction > 0) ]
           /\ drv' = [ drv EXCEPT
                    !.i = @ + 1,
                    !.lift_aug = IF outcome = "converged"
                                 THEN ReportedLiftAugmentation(config', blown_span_fraction)
                                 ELSE 0 ]
    /\ UNCHANGED << ptVars, missionVars, sz >>

\* `Restore original config`: coverage 0.65, 12 motors, use_for_wing_sizing True
BlowingRestore ==
    /\ drv.script = "analyze_blowing_ratio_sensitivity"
    /\ drv.pc = "ratios"
    /\ drv.i > 2 * Len(BlowingRatios)
    /\ config' = [ config EXCEPT !.blown_span_fraction = 650,
                                  !.number_of_highlift_motors = 12,
                                  !.use_for_wing_sizing = TRUE ]
    /\ drv' = [ drv EXCEPT !.pc = "ended" ]
    /\ UNCHANGED << ptVars, missionVars, sz >>

NextDrivers ==
    \/ CompareStart
    \/ \E outcome \in SizingOutcomes : CompareCase1(outcome)
    \/ \E outcome \in SizingOutcomes : CompareCase2(outcome)
    \/ ElectricStart
    \/ \E outcome \in SizingOutcomes : ElectricCase(outcome)
    \/ \E outcome \in SizingOutcomes : SerialCase1(outcome)
    \/ \E outcome \in SizingOutcomes : SerialCase2(outcome)
    \/ BlowingStart
    \/ \E outcome \in SizingOutcomes : TestBlowingRatio(outcome)
    \/ BlowingRestore

SpecDrivers == InitDrivers /\ [][NextDrivers]_vars

(***************************************************************************)
(* Properties                                                              *)
(***************************************************************************)
SegmentOrder == << "takeoff", "climb", "cruise", "descent", "loiter", "landing" >>

SegmentNames == [ i \in 1..Len(segments) |-> segments[i].name ]

LogNames == [ k \in 1..Len(simLog) |-> simLog[k].name ]

RECURSIVE SeqSum(_)
SeqSum(q) == IF q = << >> THEN 0 ELSE Head(q) + SeqSum(Tail(q))

Running == pc \in { "loop", "done" }

IsCall(op) == lastCall.op = op

Hybrid == pt.kind \in { "ParallelHybrid", "SerialHybrid" }

\* C1: create_mission returns exactly the six segments takeoff, climb, cruise,
\* descent, loiter, landing in this order for every profile, and
\* simulate_mission simulates them once each in list order: what it has
\* simulated so far is always the first idx - 1 names of the list, and all
\* six, cruise included, when it returns.
C1_SixSegmentsInOrder ==
    /\ pc # "idle" => SegmentNames = SegmentOrder
    /\ pc = "loop" =>
          /\ Len(simLog) = idx - 1
          /\ LogNames = SubSeq(SegmentOrder, 1, idx - 1)
    /\ pc = "done" => LogNames = SegmentOrder

\* a run over the list built from a profile that misses segments and names a
\* stranger has returned, cruise simulated
C1_Witness ==
    /\ pc = "done"
    /\ "taxi" \in DOMAIN profile
    /\ Len(simLog) = 6
    /\ segments[3].name = "cruise"
    /\ segments[3].time_sec > 0

\* C2: the weight handed to the first segment is TOGW_lb, the weight handed
\* to segment k+1 is the weight handed to segment k minus the fuel_lb stored
\* for segment k, and the battery_Wh of a segment takes nothing off it.
C2_WeightChain ==
    Running =>
        /\ \A k \in 1..Len(simLog) :
              simLog[k].W_in =
                  IF k = 1 THEN TOGW_lb
                  ELSE simLog[k - 1].W_in - segments[k - 1].fuel_lb
        /\ W_current_lb =
              IF simLog = << >> THEN TOGW_lb
              ELSE simLog[Len(simLog)].W_in - segments[Len(simLog)].fuel_lb

\* a finished run in which cruise drew both fuel and battery energy
C2_Witness ==
    /\ pc = "done"
    /\ segments[3].battery_Wh > 0
    /\ segments[3].fuel_lb > 0
    /\ W_current_lb < TOGW_lb

\* C3: during simulate_mission every segment's fuel_lb is >= 0 and the weight
\* handed on never increases, for every variant, Hp in [0,1], positive TOGW
\* and positive wing area.
C3_WeightNonIncreasing ==
    Running =>
        \A k \in 1..Len(simLog) :
            /\ segments[k].fuel_lb >= 0
            /\ k > 1 => simLog[k].W_in <= simLog[k - 1].W_in

\* C4: the returned totals are the sums of the per-segment fuel_lb,
\* battery_Wh and time_sec, and 'segments' is the list passed in, every
\* segment carrying the values this run computed for it.
C4_TotalsAreSums ==
    pc = "done" =>
        /\ result.total_fuel_lb = SeqSum([ i \in 1..Len(segments) |-> segments[i].fuel_lb ])
        /\ result.total_battery_Wh =
              SeqSum([ i \in 1..Len(segments) |-> segments[i].battery_Wh ])
        /\ result.total_time_sec = SeqSum([ i \in 1..Len(segments) |-> segments[i].time_sec ])
        /\ result.segments = segments
        /\ Len(simLog) = Len(segments)
        /\ \A i \in 1..Len(segments) :
              LET r == SimulateOne(ac, pt, segments[i], simLog[i].W_in, S_wing_ft2)
              IN  /\ segments[i].time_sec = r.t
                  /\ segments[i].fuel_lb = r.f
                  /\ segments[i].battery_Wh = r.b

\* a returned record with fuel burnt, battery drawn beyond the flat draws and
\* time beyond the flat durations
C4_Witness ==
    /\ pc = "done"
    /\ result.total_fuel_lb > 0
    /\ result.total_battery_Wh > 1000
    /\ result.total_time_sec > 1020

\* C5: get_power_split is pure for every variant: a call leaves every field
\* of the powertrain (masses, powers, tech) as it was, so the sized state
\* survives any number of calls.
C5_PowerSplitPure == [][lastCall'.op = "get_power_split" => pt' = pt]_vars

\* get_power_split has returned a turbine share that differs from the rated
\* turbine power of the sized object
C5_Witness ==
    /\ IsCall("get_power_split")
    /\ pt.m_GT_lb > 0
    /\ ret.P_GT_kW # pt.P_GT_kW

\* C6: after construction and after any sequence of size_components calls
\* the fields of unused components are zero: Conventional has no motor and
\* no generator, ParallelHybrid no generator, FullyElectric no turbine and
\* no generator.
C6_UnusedComponentsZero ==
    /\ pt.kind = "Conventional" =>
          pt.m_EM_lb = 0 /\ pt.m_GEN_lb = 0 /\ pt.P_EM_kW = 0 /\ pt.P_GEN_kW = 0
    /\ pt.kind = "ParallelHybrid" => pt.m_GEN_lb = 0 /\ pt.P_GEN_kW = 0
    /\ pt.kind = "FullyElectric" =>
          pt.m_GT_lb = 0 /\ pt.m_GEN_lb = 0 /\ pt.P_GT_kW = 0 /\ pt.P_GEN_kW = 0

\* a Conventional powertrain sized for a positive shaft power
C6_Witness ==
    /\ IsCall("size_components")
    /\ pt.kind = "Conventional"
    /\ pt.m_GT_lb > 0

\* C7: on the hybrid variants size_components and get_power_split raise
\* InvalidHybridizationRatio for every Hp outside [0,1] and return normally
\* at Hp = 0 and Hp = 1.
C7_HpValidated ==
    (Hybrid /\ (IsCall("size_components") \/ IsCall("get_power_split"))) =>
        /\ ~HpInRange(lastCall.Hp) => exc = "InvalidHybridizationRatio"
        /\ lastCall.Hp \in { 0, 1000 } => exc = "none"

\* C8: size_components and get_power_split raise NonPositivePower for a
\* negative power (Hp in [0,1], every variant), and nothing negative is
\* returned or stored.
C8_NegativePowerRejected ==
    ((IsCall("size_components") \/ IsCall("get_power_split")) /\ HpInRange(lastCall.Hp)) =>
        /\ lastCall.P < 0 => exc = "NonPositivePower"
        /\ pt.m_GT_lb >= 0 /\ pt.m_EM_lb >= 0 /\ pt.m_GEN_lb >= 0
        /\ IsCall("get_power_split") =>
              ret.fuel_rate_kg_s >= 0 /\ ret.battery_power_W >= 0

\* C9: get_power_split with required power exactly 0 returns normally, and
\* returns the all-zero split, for every variant and every Hp in [0,1].
C9_ZeroPowerIdle ==
    (IsCall("get_power_split") /\ lastCall.P = 0 /\ HpInRange(lastCall.Hp)) =>
        /\ exc = "none"
        /\ ret.fuel_rate_kg_s = 0
        /\ ret.battery_power_W = 0
        /\ ret.P_GT_kW = 0
        /\ ret.P_EM_kW = 0

\* a hybrid asked to split zero power at an interior Hp, after being sized
C9_Witness ==
    /\ IsCall("get_power_split")
    /\ lastCall.P = 0
    /\ lastCall.Hp = 300
    /\ pt.kind = "SerialHybrid"
    /\ pt.P_EM_kW > 0

\* what Conventional.get_power_split returns for the power of the last call
ConventionalSplit == Conventional_get_power_split(pt, lastCall.P, 0)

\* the turbine power of SerialHybrid at Hp = 0: P / EM_efficiency / GEN_efficiency
SerialTurbinePower ==
    MulDiv(MulDiv(lastCall.P, 1000, pt.tech.EM_efficiency), 1000, pt.tech.GEN_efficiency)

Lossless == pt.tech.EM_efficiency = 1000 /\ pt.tech.GEN_efficiency = 1000

\* C10 as stated: at Hp = 0 ParallelHybrid and SerialHybrid return
\* battery_power_W = 0 and the fuel_rate_kg_s Conventional returns for the
\* same required power, for every motor and generator efficiency in (0,1].
C10_Hp0EqualsConventional ==
    (Hybrid /\ IsCall("get_power_split") /\ lastCall.Hp = 0) =>
        /\ ret.battery_power_W = 0
        /\ ret.fuel_rate_kg_s = ConventionalSplit.fuel_rate_kg_s

\* C10 amended: at Hp = 0 both hybrids return battery_power_W = 0;
\* ParallelHybrid returns Conventional's fuel rate for the same power;
\* SerialHybrid returns Conventional's fuel rate for the turbine power
\* P / (EM_efficiency * GEN_efficiency), which is Conventional's rate for P
\* when both efficiencies are 1 and exceeds it for positive P otherwise.
C10_Hp0Degenerate ==
    (Hybrid /\ IsCall("get_power_split") /\ lastCall.Hp = 0) =>
        /\ ret.battery_power_W = 0
        /\ pt.kind = "ParallelHybrid" =>
              ret.fuel_rate_kg_s = ConventionalSplit.fuel_rate_kg_s
        /\ pt.kind = "SerialHybrid" =>
              /\ ret.P_GT_kW = SerialTurbinePower
              /\ ret.fuel_rate_kg_s =
                    Conventional_get_power_split(pt, SerialTurbinePower, 0).fuel_rate_kg_s
              /\ Lossless => ret.fuel_rate_kg_s = ConventionalSplit.fuel_rate_kg_s
              /\ (~Lossless /\ lastCall.P > 0) =>
                    ret.fuel_rate_kg_s > ConventionalSplit.fuel_rate_kg_s

\* a lossy SerialHybrid split of a positive power at Hp = 0
C10_Witness ==
    /\ IsCall("get_power_split")
    /\ lastCall.Hp = 0
    /\ lastCall.P > 0
    /\ pt.kind = "SerialHybrid"
    /\ ~Lossless
    /\ ret.fuel_rate_kg_s > ConventionalSplit.fuel_rate_kg_s

\* C11: at Hp = 1 get_power_split of ParallelHybrid and SerialHybrid returns
\* fuel_rate_kg_s = 0 and P_GT_kW = 0 for every required power, and
\* size_components at Hp = 1 leaves the turbine (for SerialHybrid the
\* generator too) with zero rated power and zero mass.
C11_Hp1AllElectric ==
    (Hybrid /\ lastCall.Hp = 1000) =>
        /\ IsCall("get_power_split") => ret.fuel_rate_kg_s = 0 /\ ret.P_GT_kW = 0
        /\ IsCall("size_components") =>
              /\ pt.P_GT_kW = 0 /\ pt.m_GT_lb = 0
              /\ pt.kind = "SerialHybrid" => pt.P_GEN_kW = 0 /\ pt.m_GEN_lb = 0

\* a SerialHybrid sized at Hp = 1 for a positive shaft power: it has a motor
C11_Witness ==
    /\ IsCall("size_components")
    /\ pt.kind = "SerialHybrid"
    /\ lastCall.Hp = 1000
    /\ lastCall.P > 0
    /\ pt.m_EM_lb > 0

SingleSource == pt.kind \in { "Conventional", "FullyElectric" }

\* C12: Conventional and FullyElectric ignore Hp: get_power_split returns
\* what it returns for any other Hp, size_components reaches the state it
\* reaches for any other Hp, and the unused source is zero (Conventional:
\* no battery power, no motor share, the turbine carries the required power;
\* FullyElectric: no fuel, no turbine share, the motor carries it).
C12_SingleSourceIgnoresHp ==
    SingleSource =>
        /\ IsCall("get_power_split") =>
              /\ \A h \in HpInputs : get_power_split(pt, lastCall.P, h) = ret
              /\ pt.kind = "Conventional" =>
                    /\ ret.battery_power_W = 0 /\ ret.P_EM_kW = 0
                    /\ ret.P_GT_kW = lastCall.P
              /\ pt.kind = "FullyElectric" =>
                    /\ ret.fuel_rate_kg_s = 0 /\ ret.P_GT_kW = 0
                    /\ ret.P_EM_kW = lastCall.P
        /\ IsCall("size_components") =>
              /\ \A h \in HpInputs : size_components(pt, lastCall.P, h) = pt
              /\ pt.kind = "Conventional" => pt.P_GT_kW = lastCall.P
              /\ pt.kind = "FullyElectric" => pt.P_EM_kW = lastCall.P

\* a Conventional powertrain sized for a positive power with an interior Hp
C12_Witness ==
    /\ IsCall("size_components")
    /\ pt.kind = "Conventional"
    /\ lastCall.Hp = 300
    /\ lastCall.P > 0
    /\ pt.m_GT_lb > 0

\* the split SerialHybrid returns for the last call with generator efficiency g
SerialSplitWithGen(g) ==
    Serial_get_power_split([ pt EXCEPT !.tech.GEN_efficiency = g ], lastCall.P, lastCall.Hp)

\* C13: SerialHybrid routes all shaft power through the motor and charges the
\* generator efficiency to the generator share only: P_EM_kW is the required
\* power, battery_power_W is 1000 * Hp * P / EM_efficiency (to the rounding
\* of the two operations that form it) whatever GEN_efficiency is, and
\* P_GT_kW is (1 - Hp) * P / (EM_efficiency * GEN_efficiency) (to the
\* rounding of the three operations that form it).
C13_SerialRouting ==
    (pt.kind = "SerialHybrid" /\ IsCall("get_power_split") /\ HpInRange(lastCall.Hp)) =>
        /\ ret.P_EM_kW = lastCall.P
        /\ Abs(ret.battery_power_W * pt.tech.EM_efficiency - lastCall.Hp * lastCall.P)
              <= 2 * pt.tech.EM_efficiency
        /\ \A g \in { 950, 1000 } :
              SerialSplitWithGen(g).battery_power_W = ret.battery_power_W
        /\ Abs(MulDiv(ret.P_GT_kW, pt.tech.GEN_efficiency, 1000) * pt.tech.EM_efficiency
               - (1000 - lastCall.Hp) * lastCall.P)
              <= 3 * pt.tech.EM_efficiency

\* a lossy SerialHybrid split of a positive power at an interior Hp
C13_Witness ==
    /\ pt.kind = "SerialHybrid"
    /\ IsCall("get_power_split")
    /\ lastCall.Hp = 300
    /\ lastCall.P > 0
    /\ pt.tech.GEN_efficiency = 950
    /\ ret.battery_power_W > 0
    /\ ret.P_GT_kW > lastCall.P - ret.battery_power_W

FlatSegments == { "takeoff", "loiter", "landing" }

\* C20: the flat segments depend on nothing but the weight handed to them:
\* takeoff, loiter and landing take 180 s, burn exactly 1% of that weight and
\* draw 200 Wh; descent takes 480 s, burns exactly 2% of it and draws 100 Wh,
\* for every powertrain variant, segment Hp and wing area.
C20_FlatSegments ==
    Running =>
        \A k \in 1..Len(simLog) :
            /\ simLog[k].name \in FlatSegments =>
                  /\ segments[k].time_sec = 180
                  /\ segments[k].fuel_lb = MulDiv(simLog[k].W_in, 1, 100)
                  /\ segments[k].battery_Wh = 200
            /\ simLog[k].name = "descent" =>
                  /\ segments[k].time_sec = 480
                  /\ segments[k].fuel_lb = MulDiv(simLog[k].W_in, 2, 100)
                  /\ segments[k].battery_Wh = 100

\* a finished run of a fully electric aircraft with a hybridized takeoff
C20_Witness ==
    /\ pc = "done"
    /\ pt.kind = "FullyElectric"
    /\ segments[1].Hp = 500
    /\ segments[1].fuel_lb > 0
    /\ segments[4].fuel_lb > 0
    /\ S_wing_ft2 = 400

SizingRan == sz.pc \in { "returned", "raised" }

\* size_aircraft called with the same arguments on a new object of the same
\* class and technology, with tolerance t
FreshRun(t) ==
    size_aircraft(LoadedConfig(config), ac, PowertrainBase_init(pt.kind, pt.tech),
                  sz.hybridization_profile, sz.Hp_design, sz.max_iterations, t)

C15_ConvergedIffMet ==
    /\ \A k \in 1..Len(sz.log) :
          ~sz.log[k].bad =>
              (sz.log[k].met <=>
                  RelativeChange(sz.log[k].old, sz.log[k].new) < sz.tolerance)
    /\ sz.pc \in { "loop", "returned" } =>
          (sz.converged <=> \E k \in 1..Len(sz.log) : sz.log[k].met)
    /\ sz.pc = "returned" =>
          (sz.result.converged <=> \E k \in 1..Len(sz.log) : sz.log[k].met)
    /\ \A k \in 1..(Len(sz.log) - 1) :
          /\ ~sz.log[k].met
          /\ sz.log[k + 1].old = sz.log[k].new

\* a run that met the tolerance at its third pass
C15_Witness ==
    /\ sz.pc = "returned"
    /\ sz.result.converged
    /\ sz.iteration = 3
    /\ sz.max_iterations > 3

\* the intermediate weights, areas and powers of one pass
IntermediateValues(it) ==
    { it.S_wing_ft2, it.P_shaft_kW, it.W_fuel_lb, it.W_battery_lb, it.TOGW_new_lb,
      it.TOGW_old_lb - it.W_fuel_lb, PropulsionWeight(it.powertrain) }
    \cup { it.mission.segments[k].fuel_lb : k \in 1..Len(it.mission.segments) }
    \cup { it.mission.segments[k].battery_Wh : k \in 1..Len(it.mission.segments) }
    \cup { it.weight_breakdown[c] : c \in DOMAIN it.weight_breakdown }

C18_TighterNeverFewer ==
    SizingRan =>
        \A t \in ToleranceInputs :
            t >= sz.tolerance => FreshRun(t).iterations <= sz.iteration

\* a converged run that needed more passes than the run with a looser tolerance
C18_Witness ==
    /\ sz.pc = "returned"
    /\ sz.result.converged
    /\ \E t \in ToleranceInputs :
          /\ t > sz.tolerance
          /\ FreshRun(t).iterations < sz.iteration

LastClimbRate ==
    ClimbRate(ClimbSpeed(ClimbStallSpeed(MulDiv(lastCall.W_lb, 99, 100), lastCall.S_ft2,
                                         ac.CLmax_clean)))

LastAltChange == lastCall.segment.altitude_end_ft - lastCall.segment.altitude_start_ft

\* C21: the climb takes (end altitude - start altitude) / rate of climb when
\* the rate of climb is positive and exactly 600 s when it is zero, negative
\* or not a number; no time comes from a division by such a rate.
C21_ClimbTimeFloor ==
    IsCall("simulate_climb_segment") =>
        /\ LastClimbRate > 0 => ret.t = MulDiv(LastAltChange, 100, LastClimbRate)
        /\ LastClimbRate <= 0 => ret.t = 600
        /\ ret.t >= 0

\* a climb with a negative weight: no rate of climb, 600 s
C21_Witness ==
    /\ IsCall("simulate_climb_segment")
    /\ lastCall.W_lb < 0
    /\ LastClimbRate <= 0
    /\ LastAltChange > 0
    /\ ret.t = 600

\* the powertrain as its constructor leaves it
FreshPowertrain == PowertrainBase_init(pt.kind, pt.tech)

\* C28: size_components overwrites: after any sequence of calls the component
\* masses and rated powers are the ones a single call with the last P_shaft_kW
\* and Hp leaves on a newly built powertrain of the same TechnologySpec (so a
\* repeated call changes nothing), and m_battery_lb and m_fuel_lb keep the
\* value the constructor gave them.
C28_SizeComponentsOverwrites ==
    IsCall("size_components") =>
        /\ pt = size_components(FreshPowertrain, lastCall.P, lastCall.Hp)
        /\ pt.m_battery_lb = FreshPowertrain.m_battery_lb
        /\ pt.m_fuel_lb = FreshPowertrain.m_fuel_lb

\* a hybrid sized with both a turbine and a motor
C28_Witness ==
    /\ IsCall("size_components")
    /\ pt.kind = "ParallelHybrid"
    /\ lastCall.P > 0
    /\ pt.m_GT_lb > 0
    /\ pt.m_EM_lb > 0
    /\ pt.m_battery_lb = 0

\* C29: create_mission gives each of the six segments the ratio the profile
\* holds under the segment's name and 0.0 when the profile has no such key; a
\* key that names no segment changes nothing and adds no segment.
C29_ProfileLookup ==
    pc # "idle" =>
        /\ Len(segments) = 6
        /\ \A i \in 1..6 :
              /\ SegmentOrder[i] \in DOMAIN profile => segments[i].Hp = profile[SegmentOrder[i]]
              /\ SegmentOrder[i] \notin DOMAIN profile => segments[i].Hp = 0
        /\ \A i \in 1..6 : segments[i].name = SegmentOrder[i]

\* a list built from a profile that names two segments and a stranger
C29_Witness ==
    /\ pc = "created"
    /\ "taxi" \in DOMAIN profile
    /\ "takeoff" \notin DOMAIN profile
    /\ segments[1].Hp = 0
    /\ segments[2].Hp = profile["climb"]
    /\ segments[2].Hp > 0
    /\ Len(segments) = 6

\* the split the powertrain answers for the cruise of the last call
LastCruiseSplit ==
    get_power_split(pt, CruiseShaftPower(ac, pt, lastCall.segment, lastCall.W_lb, lastCall.S_ft2),
                    lastCall.segment.Hp)

\* C23: the cruise takes the mission range (at 6076.12 ft per nm) over the
\* cruise speed (at 1.688 ft/s per knot), a positive time that is the same for
\* every weight, wing area, hybridization ratio and variant; its fuel and
\* battery energy are the powertrain's fuel rate and battery power times that
\* time, and its distance_nm is the mission range.
C23_CruiseTime ==
    IsCall("simulate_cruise_segment") =>
        /\ ret.t = MulDiv(6076120, ac.range_nm, ac.cruise_speed_kts * 1688)
        /\ ret.t > 0
        /\ ret.f = FuelConsumed(LastCruiseSplit.fuel_rate_kg_s, ret.t)
        /\ ret.b = BatteryConsumed(LastCruiseSplit.battery_power_W, ret.t)
        /\ ret.distance_nm = ac.range_nm

\* a hybrid cruise that drew fuel and battery energy
C23_Witness ==
    /\ IsCall("simulate_cruise_segment")
    /\ pt.kind = "SerialHybrid"
    /\ lastCall.segment.Hp = 300
    /\ lastCall.W_lb > 0
    /\ ret.t > 0
    /\ ret.f > 0
    /\ ret.b > 0

\* simulate_mission run once on the list create_mission returns
FirstRun == simulate_mission(ac, pt, create_mission(ac, profile), TOGW_lb, S_wing_ft2)

\* C30: simulate_mission overwrites the per-segment results: a run on a list
\* that was simulated before returns the totals, and leaves on every segment
\* the time_sec, fuel_lb, battery_Wh and distance_nm, that a run with the same
\* TOGW, wing area and powertrain leaves on a new list; during the run the
\* segments already passed hold these values.  No run changes a segment's
\* name, altitudes or Hp.
C30_RerunOverwrites ==
    /\ pc = "done" =>
          /\ result = FirstRun
          /\ segments = FirstRun.segments
    /\ pc = "loop" => \A k \in 1..(idx - 1) : segments[k] = FirstRun.segments[k]
    /\ pc # "idle" =>
          \A k \in 1..Len(segments) :
              LET made == create_mission(ac, profile)[k]
              IN  /\ segments[k].name = made.name
                  /\ segments[k].altitude_start_ft = made.altitude_start_ft
                  /\ segments[k].altitude_end_ft = made.altitude_end_ft
                  /\ segments[k].Hp = made.Hp

\* a second run with the arguments of the first, half way: cruise holds its
\* new results, landing still the ones of the run before
C30_Witness ==
    /\ pc = "loop"
    /\ idx = 4
    /\ segments[6].time_sec > 0
    /\ segments[6].fuel_lb = FirstRun.segments[6].fuel_lb
    /\ segments[3] = FirstRun.segments[3]
    /\ segments[3].fuel_lb > 0

\* the flag a segment carries when no blown-lift profile names it
BlownLiftDefault(name) == name \in { "takeoff", "climb", "landing" }

\* C24: every segment of the list carries a blown-lift-active flag, on by
\* default for takeoff, climb and landing and off for cruise, descent and
\* loiter.
C24_BlownLiftFlag ==
    pc # "idle" =>
        \A i \in 1..Len(segments) :
            /\ "blown_lift_active" \in DOMAIN segments[i]
            /\ segments[i].blown_lift_active = BlownLiftDefault(segments[i].name)

\* the factor the wing-sizing step applies
WingSizingFactor == get_lift_augmentation_factor(config, TRUE)

\* the wing area of the last pass had the wing sizing not used blown lift
UnaugmentedWingArea ==
    WingArea(LoadedConfig([ config EXCEPT !.use_for_wing_sizing = FALSE ]), sz.last.TOGW_old_lb)

\* C26: with use_for_wing_sizing on and an augmentation factor a > 1, the
\* wing area a pass derives from its TOGW estimate is the un-augmented wing
\* area for that estimate divided by a, and strictly smaller than it.
C26_BlownWingArea ==
    (sz.iteration > 0 /\ config.use_for_wing_sizing /\ WingSizingFactor > 1000) =>
        /\ sz.last.S_wing_ft2 = MulDiv(UnaugmentedWingArea, 1000, WingSizingFactor)
        /\ sz.last.S_wing_ft2 < UnaugmentedWingArea
        /\ S_wing_ft2 = sz.last.S_wing_ft2

\* a run that returned a wing sized with the factor 1.52
C26_Witness ==
    /\ sz.pc = "returned"
    /\ config.use_for_wing_sizing
    /\ WingSizingFactor = 1520
    /\ sz.result.S_wing_ft2 = sz.last.S_wing_ft2
    /\ sz.last.S_wing_ft2 > 0
    /\ sz.last.S_wing_ft2 < UnaugmentedWingArea

\* a script that toggles use_for_wing_sizing has come to its end, by its
\* last statement or by an exception of a sizing run
TogglerOver ==
    /\ drv.script \in { "compare_wing_sizing", "analyze_electric_blown_lift" }
    /\ drv.pc \in { "ended", "raised" }

\* C27: when compare_wing_sizing or analyze_electric_blown_lift is over,
\* use_for_wing_sizing in meow/config.json has the value it had when the
\* script started, whichever it was and whether or not a sizing run raised.
C27_SettingRestored ==
    TogglerOver => config.use_for_wing_sizing = drv.started_with

\* C25: an augmentation factor is 1.0 whenever the DEP system's enabled flag
\* is off, whatever the span fraction; with the flag on it is
\* 1.0 + (max_factor - 1.0) * span_fraction.
C25_FactorNeedsEnabledFlag ==
    (drv.script = "analyze_blowing_ratio_sensitivity" /\ drv.lift_aug > 0) =>
        /\ drv.lift_aug = get_lift_augmentation_factor(config, TRUE)
        /\ ~config.enabled => drv.lift_aug = 1000

\* the lift coefficient of a climb with blown lift active: CLmax_clean times
\* the augmentation factor
AugmentedCLmax == MulDiv(ac.CLmax_clean, get_lift_augmentation_factor(config, TRUE), 1000)

\* C22: a climb segment, for which blown lift is active by default, takes its
\* stall speed from CLmax_clean times the augmentation factor: with a factor
\* a > 1 the lift coefficient it uses is a * CLmax_clean and its time is the
\* altitude change over the rate of climb at 1.3 times that lower stall speed.
C22_ClimbStallAugmented ==
    (/\ IsCall("simulate_climb_segment")
     /\ lastCall.W_lb > 0
     /\ BlownLiftDefault(lastCall.segment.name)
     /\ get_lift_augmentation_factor(config, TRUE) > 1000) =>
        /\ ClimbCLmax(ac, lastCall.segment) = AugmentedCLmax
        /\ ret.t = ClimbTime(LastAltChange,
                             ClimbRate(ClimbSpeed(ClimbStallSpeed(MulDiv(lastCall.W_lb, 99, 100),
                                                                  lastCall.S_ft2, AugmentedCLmax))))

====
